---- MODULE Spec2Model ----
(***************************************************************************)
(* Model of create_teacher_ranking_excel (src/index.py): one invocation    *)
(* that reads every sheet of a workbook, folds the score cells of each     *)
(* named column into a per-teacher list, averages, sorts and writes the    *)
(* ranking.                                                                *)
(*                                                                         *)
(* A cell is a tagged value: empty (NaN), a number or a text.  A text is   *)
(* a sequence of symbols; the 16-character prefix "Unnamed_Teacher_" is    *)
(* kept as one symbol, since no operation of the code looks inside it.     *)
(* A mean is the exact quotient sum/len kept as a reduced fraction; for    *)
(* the small integers of the model the float division of Python orders     *)
(* and equates means exactly as the fractions do.                          *)
(***************************************************************************)
EXTENDS Integers, Sequences, FiniteSets, TLC

\* ------------------------------------------------------------- bounds
\* the size of a workbook is the number of its sheets plus that of its cells
MaxSize == 6
MaxCols == 2

\* ------------------------------------------------------------- cells
NaN == [t |-> "nan", n |-> 0, s |-> <<>>]

Num(v) == [t |-> "num", n |-> v, s |-> <<>>]

Text(str) == [t |-> "text", n |-> 0, s |-> str]

DigitChars == <<"0", "1", "2", "3", "4", "5", "6", "7", "8", "9">>

RECURSIVE NatToStr(_)
NatToStr(n) ==
    IF n < 10 THEN <<DigitChars[n + 1]>>
    ELSE NatToStr(n \div 10) \o <<DigitChars[(n % 10) + 1]>>

IntToStr(n) == IF n < 0 THEN <<"-">> \o NatToStr(0 - n) ELSE NatToStr(n)

\* str(name) of a cell that is not NaN
Str(cell) == IF cell.t = "num" THEN IntToStr(cell.n) ELSE cell.s

IsSpace(ch) == ch = " "

RECURSIVE LStrip(_)
LStrip(str) ==
    IF str = <<>> THEN <<>>
    ELSE IF IsSpace(Head(str)) THEN LStrip(Tail(str))
    ELSE str

RECURSIVE RStrip(_)
RStrip(str) ==
    IF str = <<>> THEN <<>>
    ELSE IF IsSpace(str[Len(str)]) THEN RStrip(SubSeq(str, 1, Len(str) - 1))
    ELSE str

\* str.strip()
Strip(str) == RStrip(LStrip(str))

\* pd.notna(name)
NotNa(cell) == cell.t # "nan"

\* the condition of the list comprehension: the name is kept
NameIsUsable(cell) == NotNa(cell) /\ Strip(Str(cell)) # <<>>

\* f'Unnamed_Teacher_{i}', i the 0-based column index
Placeholder(i) == Text(<<"Unnamed_Teacher_">> \o IntToStr(i))

\* one element of cleaned_teacher_names; col is the 1-based column
CleanName(cell, col) ==
    IF NameIsUsable(cell) THEN cell ELSE Placeholder(col - 1)

\* cleaned_teacher_names of a sheet (row 1 of the grid is df.iloc[0])
CleanedNames(sheet) == [c \in 1..Len(sheet[1]) |-> CleanName(sheet[1][c], c)]

\* df.empty
IsEmptySheet(sheet) == Len(sheet) = 0

\* ------------------------------------------------------------- inputs
\* the cells the read may put in row 0 and in the score rows
NameChoices ==
    {NaN, Text(<<" ">>), Text(<<"A">>), Text(<<" ", "A">>),
     Text(<<"Unnamed_Teacher_", "1">>)}

ScoreChoices == {NaN, Num(0 - 2), Num(1), Text(<<"x">>)}

\* grids of cols columns with a row of names and rows score rows
SheetsOfShape(cols, rows) ==
    {<<names>> \o body :
        names \in [1..cols -> NameChoices],
        body \in [1..rows -> [1..cols -> ScoreChoices]]}

\* the shapes (columns, score rows) of the grids of exactly cells cells
ShapesOfSize(cells) ==
    {sh \in (1..MaxCols) \X (0..cells) : sh[1] * (sh[2] + 1) = cells}

\* the sheets of exactly cells cells; the only sheet without cells is empty
SheetsOfSize(cells) ==
    IF cells = 0 THEN {<<>>}
    ELSE UNION {SheetsOfShape(sh[1], sh[2]) : sh \in ShapesOfSize(cells)}

RECURSIVE SumSizes(_)
SumSizes(sizes) ==
    IF sizes = <<>> THEN 0 ELSE Head(sizes) + SumSizes(Tail(sizes))

\* the workbooks whose sheets have the given sizes, in order
RECURSIVE WorkbooksOfSizes(_)
WorkbooksOfSizes(sizes) ==
    IF sizes = <<>> THEN {<<>>}
    ELSE {<<sh>> \o rest :
            sh \in SheetsOfSize(Head(sizes)),
            rest \in WorkbooksOfSizes(Tail(sizes))}

\* the cell counts, sheet by sheet, of the workbooks of at most MaxSize; a
\* workbook file holds at least one sheet
WorkbookSizes ==
    UNION {{sizes \in [1..count -> 0..(MaxSize - count)] :
              count + SumSizes(sizes) <= MaxSize} :
           count \in 1..MaxSize}

\* ------------------------------------------------------------- aggregation
\* all_teachers_scores is a dict: a sequence of entries in insertion order
HasKey(map, key) == \E e \in 1..Len(map) : map[e].teacher = key

ScoresOf(map, key) ==
    LET e == CHOOSE e \in 1..Len(map) : map[e].teacher = key IN map[e].scores

Keys(map) == {map[e].teacher : e \in 1..Len(map)}

RECURSIVE DropNa(_)
DropNa(cells) ==
    IF cells = <<>> THEN <<>>
    ELSE IF NotNa(Head(cells)) THEN <<Head(cells)>> \o DropNa(Tail(cells))
    ELSE DropNa(Tail(cells))

\* scores_only_df[teacher_name].dropna().tolist() for the column col
ColumnScores(sheet, col) ==
    DropNa([r \in 1..(Len(sheet) - 1) |-> sheet[r + 1][col]])

\* faulty variant of ExtendScores: assigns the new scores instead of extending
ExtendScoresOverwrites(map, key, scores) ==
    IF HasKey(map, key)
    THEN [e \in 1..Len(map) |->
            IF map[e].teacher = key
            THEN [teacher |-> key, scores |-> scores]
            ELSE map[e]]
    ELSE Append(map, [teacher |-> key, scores |-> scores])

\* lines 64-66: create the list on first encounter, then extend it
ExtendScores(map, key, scores) ==
    IF HasKey(map, key)
    THEN [e \in 1..Len(map) |->
            IF map[e].teacher = key
            THEN [teacher |-> key, scores |-> map[e].scores \o scores]
            ELSE map[e]]
    ELSE Append(map, [teacher |-> key, scores |-> scores])

Occurrences(names, key) == Cardinality({c \in 1..Len(names) : names[c] = key})

\* the loop over cleaned_teacher_names from position col on.  Selecting a
\* label that names several columns yields a DataFrame, whose .tolist()
\* raises AttributeError: the loop stops there with the map as it is.
RECURSIVE FoldTeachers(_, _, _, _)
FoldTeachers(map, names, sheet, col) ==
    IF col > Len(names) THEN [map |-> map, raised |-> FALSE]
    ELSE IF Occurrences(names, names[col]) > 1
    THEN [map |-> map, raised |-> TRUE]
    ELSE FoldTeachers(ExtendScores(map, names[col], ColumnScores(sheet, col)),
                      names, sheet, col + 1)

\* ------------------------------------------------------------- averages
RECURSIVE SumScores(_)
SumScores(scores) ==
    IF scores = <<>> THEN 0 ELSE Head(scores).n + SumScores(Tail(scores))

Abs(x) == IF x < 0 THEN 0 - x ELSE x

RECURSIVE Gcd(_, _)
Gcd(a, b) == IF b = 0 THEN a ELSE Gcd(b, a % b)

\* the quotient num/den, den > 0, in lowest terms
Fraction(num, den) ==
    LET g == Gcd(Abs(num), den)
    IN [num |-> num \div g, den |-> den \div g]

Zero == Fraction(0, 1)

\* sum() of a list holding a text raises TypeError
SumRaises(scores) == \E k \in 1..Len(scores) : scores[k].t # "num"

\* faulty variant of Average: the last score is left out of the sum
AverageDropsLast(scores) ==
    IF scores # <<>>
    THEN Fraction(SumScores(SubSeq(scores, 1, Len(scores) - 1)), Len(scores))
    ELSE Zero

\* lines 75-79: sum(scores) / len(scores), or 0 for a teacher without scores
Average(scores) ==
    IF scores # <<>> THEN Fraction(SumScores(scores), Len(scores)) ELSE Zero

\* faulty variant of AverageRows: a teacher without scores gets no row
AverageRowsSkipsEmpty(map) ==
    SelectSeq([e \in 1..Len(map) |->
                 [teacher |-> map[e].teacher, mean |-> Average(map[e].scores)]],
              LAMBDA row : ScoresOf(map, row.teacher) # <<>>)

\* teacher_avg_scores: one row per teacher, in dict order
AverageRows(map) ==
    [e \in 1..Len(map) |->
        [teacher |-> map[e].teacher, mean |-> Average(map[e].scores)]]

AveragesRaise(map) == \E e \in 1..Len(map) : SumRaises(map[e].scores)

\* ------------------------------------------------------------- ranking
\* a >= b for means
MeanGeq(a, b) == a.num * b.den >= b.num * a.den

\* faulty variant of ComesBefore: ascending order
ComesBeforeAscending(a, b) == MeanGeq(b, a)

\* sort_values(ascending=False): the row with mean a may precede that with b
ComesBefore(a, b) == MeanGeq(a, b)

IsSortedOrder(rows, perm) ==
    \A i \in 1..(Len(rows) - 1) :
        ComesBefore(rows[perm[i]].mean, rows[perm[i + 1]].mean)

\* rating_df.index + 1, for the 1-based position index of the model
RankOf(index) == index

\* the sorted frame with its rank column, for one order of the rows
Ranked(rows, perm) ==
    [i \in 1..Len(rows) |->
        [teacher |-> rows[perm[i]].teacher,
         mean |-> rows[perm[i]].mean,
         rank |-> RankOf(i)]]

\* ------------------------------------------------------------- state
VARIABLES
    pc,                    \* the stage of the run
    read_outcome,          \* what pd.read_excel did: "pending", "ok", "not_found", "error"
    all_sheets_data,       \* the sheets read, in workbook order
    sheet_pos,             \* the next sheet of the loop of line 31
    teacher_names_on_sheet, \* row 0 of the sheet processed last (line 39)
    cleaned_teacher_names, \* the names of the sheet processed last
    all_teachers_scores,   \* the dict of line 28
    teacher_avg_scores,    \* the rows of line 73
    rating_df,             \* the sorted frame with its rank column
    output_file,           \* the table written to output_excel_path
    written,               \* to_excel was called and returned
    returned,              \* the return value: "none", "True", "False"
    raised,                \* the exception that left the function, or "none"
    warnings,              \* number of sheets skipped as empty
    stages                 \* the stages entered so far, in order

vars ==
    <<pc, read_outcome, all_sheets_data, sheet_pos, teacher_names_on_sheet,
      cleaned_teacher_names, all_teachers_scores, teacher_avg_scores, rating_df, output_file, written,
      returned, raised, warnings, stages>>

Init ==
    /\ pc = "Idle"
    /\ read_outcome = "pending"
    /\ all_sheets_data = <<>>
    /\ sheet_pos = 1
    /\ teacher_names_on_sheet = <<>>
    /\ cleaned_teacher_names = <<>>
    /\ all_teachers_scores = <<>>
    /\ teacher_avg_scores = <<>>
    /\ rating_df = <<>>
    /\ output_file = <<>>
    /\ written = FALSE
    /\ returned = "none"
    /\ raised = "none"
    /\ warnings = 0
    /\ stages = <<>>

\* the call: line 16
Call ==
    /\ pc = "Idle"
    /\ pc' = "Ingesting"
    /\ stages' = Append(stages, "Ingesting")
    /\ UNCHANGED <<read_outcome, all_sheets_data, sheet_pos, teacher_names_on_sheet,
                   cleaned_teacher_names,
                   all_teachers_scores, teacher_avg_scores, rating_df, output_file,
                   written, returned, raised, warnings>>

\* line 19 returns the sheets; line 28 starts the dict
ReadSucceeds ==
    /\ pc = "Ingesting"
    /\ \E sizes \in WorkbookSizes :
          \E workbook \in WorkbooksOfSizes(sizes) : all_sheets_data' = workbook
    /\ read_outcome' = "ok"
    /\ all_teachers_scores' = <<>>
    /\ sheet_pos' = 1
    /\ pc' = "Aggregating"
    /\ stages' = Append(stages, "Aggregating")
    /\ UNCHANGED <<teacher_names_on_sheet,
                   cleaned_teacher_names, teacher_avg_scores, rating_df,
                   output_file, written, returned, raised, warnings>>

\* lines 21-23: FileNotFoundError
ReadNotFound ==
    /\ pc = "Ingesting"
    /\ read_outcome' = "not_found"
    /\ pc' = "Failed"
    /\ returned' = "False"
    /\ UNCHANGED <<all_sheets_data, sheet_pos, teacher_names_on_sheet,
                   cleaned_teacher_names,
                   all_teachers_scores, teacher_avg_scores, rating_df, output_file,
                   written, raised, warnings, stages>>

\* lines 24-26: any other exception of the read
ReadFails ==
    /\ pc = "Ingesting"
    /\ read_outcome' = "error"
    /\ pc' = "Failed"
    /\ returned' = "False"
    /\ UNCHANGED <<all_sheets_data, sheet_pos, teacher_names_on_sheet,
                   cleaned_teacher_names,
                   all_teachers_scores, teacher_avg_scores, rating_df, output_file,
                   written, raised, warnings, stages>>

MoreSheets == pc = "Aggregating" /\ sheet_pos <= Len(all_sheets_data)

\* faulty variant of SkipEmptySheet: return False instead of continue
SkipEmptySheetAborts ==
    /\ MoreSheets
    /\ IsEmptySheet(all_sheets_data[sheet_pos])
    /\ warnings' = warnings + 1
    /\ pc' = "Failed"
    /\ returned' = "False"
    /\ UNCHANGED <<read_outcome, all_sheets_data, sheet_pos, teacher_names_on_sheet,
                   cleaned_teacher_names,
                   all_teachers_scores, teacher_avg_scores, rating_df, output_file,
                   written, raised, stages>>

\* lines 32-34: an empty sheet is reported and skipped
SkipEmptySheet ==
    /\ MoreSheets
    /\ IsEmptySheet(all_sheets_data[sheet_pos])
    /\ warnings' = warnings + 1
    /\ sheet_pos' = sheet_pos + 1
    /\ UNCHANGED <<pc, read_outcome, all_sheets_data, teacher_names_on_sheet,
                   cleaned_teacher_names,
                   all_teachers_scores, teacher_avg_scores, rating_df, output_file,
                   written, returned, raised, stages>>

\* lines 39-66: one sheet with rows
ProcessSheet ==
    /\ MoreSheets
    /\ ~IsEmptySheet(all_sheets_data[sheet_pos])
    /\ LET sheet == all_sheets_data[sheet_pos]
           names == CleanedNames(sheet)
           fold == FoldTeachers(all_teachers_scores, names, sheet, 1)
       IN /\ teacher_names_on_sheet' = sheet[1]
          /\ cleaned_teacher_names' = names
          /\ all_teachers_scores' = fold.map
          /\ IF fold.raised
             THEN /\ pc' = "Raised"
                  /\ raised' = "AttributeError"
                  /\ UNCHANGED sheet_pos
             ELSE /\ sheet_pos' = sheet_pos + 1
                  /\ UNCHANGED <<pc, raised>>
    /\ UNCHANGED <<read_outcome, all_sheets_data, teacher_avg_scores, rating_df,
                   output_file, written, returned, warnings, stages>>

SheetsDone == pc = "Aggregating" /\ sheet_pos > Len(all_sheets_data)

\* faulty variant of NoDataFound: the return of line 70 is missing
NoDataFoundContinues ==
    /\ SheetsDone
    /\ all_teachers_scores = <<>>
    /\ pc' = "Exporting"
    /\ stages' = stages \o <<"Ranking", "Exporting">>
    /\ UNCHANGED <<read_outcome, all_sheets_data, sheet_pos, teacher_names_on_sheet,
                   cleaned_teacher_names,
                   all_teachers_scores, teacher_avg_scores, rating_df, output_file,
                   written, returned, raised, warnings>>

\* lines 68-70: no teacher was recorded
NoDataFound ==
    /\ SheetsDone
    /\ all_teachers_scores = <<>>
    /\ pc' = "Failed"
    /\ returned' = "False"
    /\ UNCHANGED <<read_outcome, all_sheets_data, sheet_pos, teacher_names_on_sheet,
                   cleaned_teacher_names,
                   all_teachers_scores, teacher_avg_scores, rating_df, output_file,
                   written, raised, warnings, stages>>

\* lines 73-82: the mean of each teacher; sum() raises on a text
ComputeAverages ==
    /\ SheetsDone
    /\ all_teachers_scores # <<>>
    /\ stages' = Append(stages, "Ranking")
    /\ IF AveragesRaise(all_teachers_scores)
       THEN /\ pc' = "Raised"
            /\ raised' = "TypeError"
            /\ UNCHANGED teacher_avg_scores
       ELSE /\ pc' = "Ranking"
            /\ teacher_avg_scores' = AverageRows(all_teachers_scores)
            /\ UNCHANGED raised
    /\ UNCHANGED <<read_outcome, all_sheets_data, sheet_pos, teacher_names_on_sheet,
                   cleaned_teacher_names,
                   all_teachers_scores, rating_df, output_file, written, returned,
                   warnings>>

\* lines 85-88: sort by mean, descending, and number the rows.  The sort is
\* the default quicksort, which promises no order among equal means.
SortAndRank ==
    /\ pc = "Ranking"
    /\ \E perm \in Permutations(1..Len(teacher_avg_scores)) :
          /\ IsSortedOrder(teacher_avg_scores, perm)
          /\ rating_df' = Ranked(teacher_avg_scores, perm)
    /\ pc' = "Exporting"
    /\ stages' = Append(stages, "Exporting")
    /\ UNCHANGED <<read_outcome, all_sheets_data, sheet_pos, teacher_names_on_sheet,
                   cleaned_teacher_names,
                   all_teachers_scores, teacher_avg_scores, output_file, written,
                   returned, raised, warnings>>

\* lines 92-94: the table is written
WriteSucceeds ==
    /\ pc = "Exporting"
    /\ output_file' = rating_df
    /\ written' = TRUE
    /\ returned' = "True"
    /\ pc' = "Done"
    /\ UNCHANGED <<read_outcome, all_sheets_data, sheet_pos, teacher_names_on_sheet,
                   cleaned_teacher_names,
                   all_teachers_scores, teacher_avg_scores, rating_df, raised,
                   warnings, stages>>

\* lines 95-97: to_excel raised
WriteFails ==
    /\ pc = "Exporting"
    /\ returned' = "False"
    /\ pc' = "Failed"
    /\ UNCHANGED <<read_outcome, all_sheets_data, sheet_pos, teacher_names_on_sheet,
                   cleaned_teacher_names,
                   all_teachers_scores, teacher_avg_scores, rating_df, output_file,
                   written, raised, warnings, stages>>

Next ==
    \/ Call
    \/ ReadSucceeds
    \/ ReadNotFound
    \/ ReadFails
    \/ SkipEmptySheet
    \/ ProcessSheet
    \/ NoDataFound
    \/ ComputeAverages
    \/ SortAndRank
    \/ WriteSucceeds
    \/ WriteFails

Spec == Init /\ [][Next]_vars

\* ------------------------------------------------------------- properties
\* every sheet was handled by the loop of line 31 without an exception
AggregationOver == read_outcome = "ok" /\ sheet_pos > Len(all_sheets_data)

\* the loop of line 31 has just ended: the dict is not touched afterwards
LoopExit == AggregationOver /\ pc = "Aggregating"

Rows(table) == {table[i] : i \in 1..Len(table)}

RowsOf(table, key) == {row \in Rows(table) : row.teacher = key}

\* the non-empty cells, in row order, of the columns of a sheet that map to key
RECURSIVE ColumnsOfKey(_, _, _)
ColumnsOfKey(sheet, key, col) ==
    IF col > Len(sheet[1]) THEN <<>>
    ELSE (IF CleanName(sheet[1][col], col) = key
          THEN DropNa([r \in 1..(Len(sheet) - 1) |-> sheet[r + 1][col]])
          ELSE <<>>) \o ColumnsOfKey(sheet, key, col + 1)

\* the contributions of the sheets from position pos on, in sheet order
RECURSIVE ContributionsFrom(_, _)
ContributionsFrom(key, pos) ==
    IF pos > Len(all_sheets_data) THEN <<>>
    ELSE (IF IsEmptySheet(all_sheets_data[pos]) THEN <<>>
          ELSE ColumnsOfKey(all_sheets_data[pos], key, 1))
         \o ContributionsFrom(key, pos + 1)

\* the keys of row 0 of every sheet with rows
KeysOfWorkbook ==
    UNION {{CleanName(all_sheets_data[p][1][c], c) :
              c \in 1..Len(all_sheets_data[p][1])} :
           p \in {q \in 1..Len(all_sheets_data) : ~IsEmptySheet(all_sheets_data[q])}}

\* C1: every teacher of the dict has a row in the written table whose mean
\* is sum(scores)/len(scores) of the teacher's combined list, or 0 when the
\* list is empty.
C1_MeanIsSumOverCount ==
    written =>
        \A e \in 1..Len(all_teachers_scores) :
            LET scores == all_teachers_scores[e].scores
                rows == RowsOf(output_file, all_teachers_scores[e].teacher)
            IN /\ rows # {}
               /\ \A row \in rows :
                     /\ row.mean.den > 0
                     /\ IF scores # <<>>
                        THEN row.mean.num * Len(scores) =
                             SumScores(scores) * row.mean.den
                        ELSE row.mean.num = 0

C1_Witness ==
    /\ written
    /\ \E e \in 1..Len(all_teachers_scores) :
          /\ Len(all_teachers_scores[e].scores) >= 2
          /\ SumScores(all_teachers_scores[e].scores) % 2 # 0
    /\ \E e \in 1..Len(all_teachers_scores) : all_teachers_scores[e].scores = <<>>

\* C2: in the written table the rank of a row is its 1-based position, the
\* ranks are exactly 1..N, and a row of smaller rank has a mean greater than
\* or equal to that of a row of larger rank.
C2_RanksArePositionsByDescendingMean ==
    written =>
        /\ \A i \in 1..Len(output_file) : output_file[i].rank = i
        /\ {output_file[i].rank : i \in 1..Len(output_file)} = 1..Len(output_file)
        /\ \A a, b \in Rows(output_file) :
              a.rank < b.rank => a.mean.num * b.mean.den >= b.mean.num * a.mean.den

C2_Witness ==
    /\ written
    /\ Len(output_file) >= 3
    /\ output_file[1].mean # output_file[Len(output_file)].mean

\* the sanitized name of the glossary: the trimmed name, or the placeholder
TrimmedName(cell, col) ==
    IF NameIsUsable(cell) THEN Text(Strip(Str(cell))) ELSE Placeholder(col - 1)

TrimmedNamesOfWorkbook ==
    UNION {{TrimmedName(all_sheets_data[p][1][c], c) :
              c \in 1..Len(all_sheets_data[p][1])} :
           p \in {q \in 1..Len(all_sheets_data) : ~IsEmptySheet(all_sheets_data[q])}}

SomeNumericScore ==
    \E e \in 1..Len(all_teachers_scores) :
        \E k \in 1..Len(all_teachers_scores[e].scores) :
            all_teachers_scores[e].scores[k].t = "num"

\* C3: when some teacher has a numeric score, the written table has as many
\* rows as there are distinct sanitized (trimmed, or placeholder) names in
\* row 0 of the sheets with rows.
C3_RowCountIsTrimmedNameCount ==
    (written /\ SomeNumericScore) =>
        Len(output_file) = Cardinality(TrimmedNamesOfWorkbook)

\* C4: when the loop over the sheets ends the dict holds exactly the keys of
\* the workbook, and the list of each is the concatenation, in sheet order
\* and then row order, of the non-empty cells of its column in each sheet.
C4_MergeIsConcatenation ==
    LoopExit =>
        /\ Keys(all_teachers_scores) = KeysOfWorkbook
        /\ \A e \in 1..Len(all_teachers_scores) :
              all_teachers_scores[e].scores =
                  ContributionsFrom(all_teachers_scores[e].teacher, 1)

C4_Witness ==
    /\ LoopExit
    /\ Len(all_sheets_data) = 2
    /\ \E e \in 1..Len(all_teachers_scores) :
          LET key == all_teachers_scores[e].teacher
          IN /\ ~IsEmptySheet(all_sheets_data[1])
             /\ ~IsEmptySheet(all_sheets_data[2])
             /\ ColumnsOfKey(all_sheets_data[1], key, 1) # <<>>
             /\ ColumnsOfKey(all_sheets_data[2], key, 1) # <<>>
             /\ ColumnsOfKey(all_sheets_data[1], key, 1) #
                ColumnsOfKey(all_sheets_data[2], key, 1)

\* C5: in the sheet processed, a column whose name in row 0 is blank or
\* missing has a key different from the key of every other column.
C5_PlaceholderKeysAreDistinct ==
    \A i, j \in 1..Len(cleaned_teacher_names) :
        (i # j /\ ~NameIsUsable(teacher_names_on_sheet[i])) =>
            cleaned_teacher_names[i] # cleaned_teacher_names[j]

StageOrder == <<"Ingesting", "Aggregating", "Ranking", "Exporting">>

C6_FailureShortCircuits ==
    /\ Len(stages) <= Len(StageOrder)
    /\ stages = SubSeq(StageOrder, 1, Len(stages))
    /\ written => stages = StageOrder
    /\ read_outcome \in {"not_found", "error"} =>
          /\ pc = "Failed"
          /\ returned = "False"
          /\ ~written
          /\ stages = <<"Ingesting">>
    /\ (AggregationOver /\ all_teachers_scores = <<>> /\ pc # "Aggregating") =>
          /\ pc = "Failed"
          /\ returned = "False"
          /\ ~written
          /\ stages = <<"Ingesting", "Aggregating">>

\* C6: a missing or unreadable input, or a dict left empty by all sheets,
\* ends the run in Failed with False returned and nothing written; the
\* stages are entered in the order Ingesting, Aggregating, Ranking,
\* Exporting, and no step is taken from Failed.
C6_FailedIsTerminalAndSkipsExport ==
    []C6_FailureShortCircuits /\ [][pc # "Failed"]_vars

C6_Witness ==
    /\ pc = "Failed"
    /\ AggregationOver
    /\ all_teachers_scores = <<>>
    /\ warnings = 2

\* C7: the call ends by returning a boolean, True exactly when the table
\* was written; no exception leaves the function.
C7_AlwaysReturnsBoolean ==
    /\ raised = "none"
    /\ pc # "Raised"
    /\ (returned = "True") <=> written

\* the sheets of a workbook that have rows, in order
RECURSIVE WithoutEmptySheets(_)
WithoutEmptySheets(sheets) ==
    IF sheets = <<>> THEN <<>>
    ELSE IF IsEmptySheet(Head(sheets)) THEN WithoutEmptySheets(Tail(sheets))
    ELSE <<Head(sheets)>> \o WithoutEmptySheets(Tail(sheets))

\* the dict after the loop of line 31 over sheets that all have rows
RECURSIVE DictOf(_, _)
DictOf(map, sheets) ==
    IF sheets = <<>> THEN map
    ELSE DictOf(FoldTeachers(map, CleanedNames(Head(sheets)), Head(sheets), 1).map,
                Tail(sheets))

\* C8: at every point of the loop the dict is the one the sheets with rows
\* seen so far produce, so an empty sheet adds no key and no score; an
\* empty sheet does not fail the run, and the table written is a ranking of
\* the workbook with its empty sheets removed.
C8_EmptySheetsChangeNothing ==
    /\ pc = "Aggregating" =>
          all_teachers_scores =
              DictOf(<<>>, WithoutEmptySheets(
                               SubSeq(all_sheets_data, 1, sheet_pos - 1)))
    /\ (pc = "Failed" /\ read_outcome = "ok" /\ stages # StageOrder) =>
          WithoutEmptySheets(all_sheets_data) = <<>>
    /\ written =>
          /\ returned = "True"
          /\ LET rows == AverageRows(DictOf(<<>>, WithoutEmptySheets(all_sheets_data)))
             IN \E perm \in Permutations(1..Len(rows)) :
                   /\ \A i \in 1..(Len(rows) - 1) :
                         MeanGeq(rows[perm[i]].mean, rows[perm[i + 1]].mean)
                   /\ \A i \in 1..Len(rows) :
                         /\ output_file[i].teacher = rows[perm[i]].teacher
                         /\ output_file[i].mean = rows[perm[i]].mean
                   /\ Len(output_file) = Len(rows)

C8_Witness ==
    /\ written
    /\ returned = "True"
    /\ warnings >= 1
    /\ IsEmptySheet(all_sheets_data[1])
    /\ Len(output_file) >= 2

\* C9: every element of every score list is a number.
C9_ScoresAreNumeric ==
    \A e \in 1..Len(all_teachers_scores) :
        \A k \in 1..Len(all_teachers_scores[e].scores) :
            all_teachers_scores[e].scores[k].t = "num"

IsZero(mean) == mean.num = 0

IsPositive(mean) == mean.num > 0

\* the rows of the written table of teachers whose list is empty
RowsWithoutScores ==
    {row \in Rows(output_file) : ScoresOf(all_teachers_scores, row.teacher) = <<>>}

\* C10 as claimed: a teacher without scores has a row with mean 0, and no
\* teacher with a score and a mean other than 0 has a larger rank.
C10_NoScoresRanksBelowAllNonZero ==
    written =>
        /\ \A e \in 1..Len(all_teachers_scores) :
              all_teachers_scores[e].scores = <<>> =>
                  \E row \in RowsWithoutScores :
                      row.teacher = all_teachers_scores[e].teacher
        /\ \A row \in RowsWithoutScores :
              /\ IsZero(row.mean)
              /\ \A other \in Rows(output_file) :
                    (ScoresOf(all_teachers_scores, other.teacher) # <<>>
                       /\ ~IsZero(other.mean)) => ~(other.rank > row.rank)

\* C10 amended: a teacher without scores has a row with mean 0, and no
\* teacher with a mean greater than 0 has a larger rank.
C10_NoScoresRanksBelowAllPositive ==
    written =>
        /\ \A e \in 1..Len(all_teachers_scores) :
              all_teachers_scores[e].scores = <<>> =>
                  \E row \in RowsWithoutScores :
                      row.teacher = all_teachers_scores[e].teacher
        /\ \A row \in RowsWithoutScores :
              /\ IsZero(row.mean)
              /\ \A other \in Rows(output_file) :
                    IsPositive(other.mean) => ~(other.rank > row.rank)

C10_Witness ==
    /\ written
    /\ RowsWithoutScores # {}
    /\ \E other \in Rows(output_file) : IsPositive(other.mean)

====
